---- MODULE Spec2Model ----
(***************************************************************************)
(* Export / pagination logic of the Ricky-Dashboard admin dashboards.      *)
(*                                                                         *)
(* The dashboards are modelled as variants of one state machine:           *)
(*   "main"    src/src/Dashboard.js, first component (tabs numbers,        *)
(*             transactions, ussd), lines 56-865;                          *)
(*   "p000"    src/unnamed/part_000 (tabs transactions, ussd);             *)
(*   "teller"  src/src/Dashboard.js, second component (a realtime mirror   *)
(*             of teller_response), lines 888-1395.                        *)
(* Spec runs the two paginated dashboards, SpecAll all three.              *)
(* SpecPure applies the pure helpers (the grouping filters,                *)
(* formatPhoneNumber and extractGB) to arguments drawn from bounded sets.  *)
(* SpecLive runs the paginated dashboards under the assumption that every  *)
(* store call in flight eventually returns.                                *)
(*                                                                         *)
(* ui is the React state of the component (one field per useState cell,    *)
(* the per-tab cells indexed by channel).  Every asynchronous handler is   *)
(* cut at its awaits: the synchronous segment up to an await is one        *)
(* action, together with the re-render and the effect that React runs      *)
(* after it (state updates of one segment are batched).  A store call in   *)
(* flight is an element of tasks: the store answers a read when it is      *)
(* issued, and the handler's continuation runs in a later step, so a       *)
(* response can be arbitrarily stale when it is applied.  A batch commit   *)
(* is applied in the step in which the handler resumes after it.           *)
(***************************************************************************)
EXTENDS Integers, Sequences, FiniteSets, Bags, TLC

VARIABLES
    variant,    \* which dashboard file is running
    store,      \* the document store: per channel the documents and their flags
    ui,         \* the component's React state
    tasks,      \* bag of store calls in flight, each with its handler's closure
    timers,     \* debounced Previous/Next clicks that have not fired yet
    files,      \* history: the export files produced so far, in order
    ended,      \* history: a summary of every export handler that has returned
    cancels,    \* history: how many times the dialog was closed without confirming
    events,     \* history: the kinds of disturbance the run has seen so far
    calc,       \* a pure helper under evaluation: its argument and its results
    opsLeft,    \* user clicks left
    extLeft,    \* external store writes left
    failLeft    \* store failures left

vars == <<variant, store, ui, tasks, timers, files, ended, cancels, events, calc,
         opsLeft, extLeft, failLeft>>

\* No helper is under evaluation while a dashboard runs.
NoCalc == [fn |-> "none", src |-> "none", arg |-> <<>>, out |-> <<>>]

(* ------------------------------ constants ------------------------------ *)

pageSize == 6
maxExportRecords == 1000
batchSize == 500

\* Bounds of the exploration: user clicks, external writes, store failures,
\* and the number of store calls in flight under which a click is explored.
MaxOps == 4
MaxExt == 1
MaxFail == 1
MaxTasks == 2
TwoRows == 2

AllChannels == {"numbers", "transactions", "ussd"}

\* The collection of the teller dashboard.
TellerChannel == "teller"

StoreChannels == AllChannels \cup {TellerChannel}

Variants == {"main", "p000"}

Paginated == variant \in Variants

ChannelsOf(v) ==
    CASE v = "main" -> {"numbers", "transactions", "ussd"}
      [] v = "p000" -> {"transactions", "ussd"}
      [] OTHER -> {TellerChannel}

Channels == ChannelsOf(variant)

\* The tab shown at mount: useState(0) / useState("transactions").
InitialTab(v) == IF v = "main" THEN "numbers" ELSE "transactions"

\* Whether the channel's queries carry where("status", "==", "approved").
StatusFilter(ch) == ch # "numbers"

\* part_000 orders by createdAt desc; Dashboard.js orders ascending.
Descending(v) == v = "p000"

NoError == "none"

(* ------------------------------- helpers ------------------------------- *)

Min(a, b) == IF a < b THEN a ELSE b

Take(s, k) == SubSeq(s, 1, Min(k, Len(s)))

Reverse(s) == [i \in 1..Len(s) |-> s[Len(s) + 1 - i]]

SeqToSet(s) == {s[i] : i \in 1..Len(s)}

\* The documents a sequence of chunks holds, in order.
RECURSIVE Flatten(_)
Flatten(chunks) ==
    IF chunks = <<>> THEN <<>> ELSE Head(chunks) \o Flatten(Tail(chunks))

EmptyMap == <<>>

MapPut(m, k, v) == [x \in (DOMAIN m) \cup {k} |-> IF x = k THEN v ELSE m[x]]

(* -------------------------------- store -------------------------------- *)
(* Documents of a channel are 1..n in creation order (the order key of the *)
(* paginated queries).  exported and unapproved are the documents with     *)
(* exported = true and with a status other than "approved".                *)

InitStore(n, status) ==
    [n |-> IF status THEN n + 1 ELSE n,
     exported |-> {},
     unapproved |-> IF status THEN {n + 1} ELSE {},
     \* the documents not created today (teller_response), and those carrying
     \* the transid / externalRef of document 1 (teller_response, data_purchase)
     old |-> {},
     dup |-> {},
     \* history: the documents flagged by another session
     external |-> {}]

Approved(st, ch) ==
    {d \in 1..st[ch].n : ~StatusFilter(ch) \/ d \notin st[ch].unapproved}

\* where(status == approved), where(exported == false)
Pending(st, ch) == Approved(st, ch) \ st[ch].exported

Ordered(S, n, desc) ==
    LET asc == SelectSeq([i \in 1..n |-> i], LAMBDA d : d \in S)
    IN  IF desc THEN Reverse(asc) ELSE asc

\* A page query that starts at its cursor (startAt for startAfter).
PageQuery_StartAt(v, st, ch, after) ==
    LET all == Ordered(Pending(st, ch), st[ch].n, Descending(v))
        rest == IF after = <<>> THEN all
                ELSE SelectSeq(all, LAMBDA d :
                         IF Descending(v) THEN d <= after[1] ELSE d >= after[1])
    IN  Take(rest, pageSize)

\* The page query: pending documents in order, after the cursor, limit(pageSize).
PageQuery(v, st, ch, after) ==
    LET all == Ordered(Pending(st, ch), st[ch].n, Descending(v))
        rest == IF after = <<>> THEN all
                ELSE SelectSeq(all, LAMBDA d :
                         IF Descending(v) THEN d < after[1] ELSE d > after[1])
    IN  Take(rest, pageSize)

\* The total-count query: size of the pending set.
TotalQuery(st, ch) == Cardinality(Pending(st, ch))

\* openConfirmDialog's count: pending, limit(maxExportRecords).
CountQuery(st, ch) == Min(Cardinality(Pending(st, ch)), maxExportRecords)

\* The confirm-time query of handleDownloadX.  part_000's handleDownloadUssd
\* calls getBaseQuery(USSD_COLLECTION, true, false): no exported filter.
ExportFiltersExported(v, ch) == ~(v = "p000" /\ ch = "ussd")

\* The confirm-time query without its limit().
ExportQuery_Unlimited(v, st, ch) ==
    Ordered(IF ExportFiltersExported(v, ch) THEN Pending(st, ch) ELSE Approved(st, ch),
            st[ch].n, Descending(v))

ExportQuery(v, st, ch) ==
    LET sel == IF ExportFiltersExported(v, ch) THEN Pending(st, ch)
               ELSE Approved(st, ch)
    IN  Take(Ordered(sel, st[ch].n, Descending(v)), maxExportRecords)

(* The USSD tab of the first dashboard as src/src/components has it: a     *)
(* document may repeat the externalRef of document 1 (the set dup), and the *)
(* tab shows one card per key.                                              *)

\* getKey: tx.externalRef || tx.id
getKey(st, d) == IF d \in st.dup THEN 1 ELSE d

\* uniqueTx: the rows of the page whose key no earlier row has.
uniqueTx(st, rows) ==
    LET first == SelectSeq([i \in 1..Len(rows) |-> i],
                           LAMBDA i : \A j \in 1..(i - 1) :
                                         getKey(st, rows[j]) # getKey(st, rows[i]))
    IN  [k \in 1..Len(first) |-> rows[first[k]]]

\* The channel whose tab groups its rows by key.
GroupedChannel(v, ch) == v = "main" /\ ch = "ussd"

\* The cards a tab renders from its rows.
Displayed(v, st, rows, ch) ==
    IF GroupedChannel(v, ch) THEN uniqueTx(st[ch], rows) ELSE rows

(* ------------------------------ React state ---------------------------- *)

InitialUi(v) ==
    [tabValue |-> InitialTab(v),
     loading |-> TRUE,
     error |-> NoError,
     showConfirmDialog |-> FALSE,
     confirmAction |-> <<>>,
     recordCount |-> 0,
     rows |-> [c \in AllChannels |-> <<>>],
     page |-> [c \in AllChannels |-> 1],
     lastDocs |-> [c \in AllChannels |-> EmptyMap],
     hasMore |-> [c \in AllChannels |-> TRUE],
     cache |-> [c \in AllChannels |-> EmptyMap],
     total |-> [c \in AllChannels |-> 0],
     \* the cells of the teller dashboard: its mirror and its tab
     transactions |-> [docs |-> <<>>, exported |-> {}],
     activeTab |-> "all"]

\* What a fetchX / handleDownloadX function object of one render closes over.
Closure(u, ch) == [cache |-> u.cache[ch], lastDocs |-> u.lastDocs[ch]]

NoClosure == [cache |-> EmptyMap, lastDocs |-> EmptyMap]

Task(kind, ch, pc, cl) ==
    [kind |-> kind, ch |-> ch, pc |-> pc, page |-> 0,
     clCache |-> cl.cache, clLastDocs |-> cl.lastDocs,
     docs |-> <<>>, i |-> 0, res |-> <<>>, n |-> 0,
     \* history fields of an export: the count its dialog showed, the selected
     \* documents already flagged when it read them, the chunks it committed,
     \* whether it reset the pagination state, and how its page-1 reload was served
     shown |-> 0, reflag |-> {}, written |-> <<>>, invalidated |-> FALSE,
     served |-> "none",
     \* and the pending sets of the store when the dialog was opened and when
     \* the export was confirmed
     atOpen |-> {}, atConfirm |-> {},
     \* history field of a page fetch: the channel's pagination cells in the
     \* render before the state change that made the effect issue it
     before |-> <<>>]

\* page > 1 && lastDocs[page - 2] ? startAfter(lastDocs[page - 2]) : from the start
Cursor(lastDocs, pg) ==
    IF pg > 1 /\ (pg - 1) \in DOMAIN lastDocs THEN <<lastDocs[pg - 1]>> ELSE <<>>

\* fetchX(page) past its cache check: getDocs is in flight.
PageTask(v, st, ch, pg, cl) ==
    [Task("page", ch, "page", cl) EXCEPT
        !.page = pg,
        !.res = PageQuery(v, st, ch, Cursor(cl.lastDocs, pg))]

\* fetchTotalX: getDocs is in flight (atOpen: the pending set it counts).
TotalTask(st, ch) ==
    [Task("total", ch, "total", NoClosure) EXCEPT
        !.n = TotalQuery(st, ch),
        !.atOpen = Pending(st, ch)]

AddAll(bag, ts) == bag (+) [t \in ts |-> 1]

Remove(bag, t) == bag (-) SetToBag({t})

\* fetchX(page), synchronous part: serve the closure's cached page, or set
\* loading and issue the query.
\* A fetchX without its cache check.
CacheHit_Never(cl, pg) == FALSE

CacheHit(cl, pg) == pg \in DOMAIN cl.cache

FetchSync(u, ch, pg, cl) ==
    IF CacheHit(cl, pg)
    THEN [u EXCEPT !.rows[ch] = cl.cache[pg], !.loading = FALSE]
    ELSE [u EXCEPT !.loading = TRUE]

\* The pagination cells of one channel.
PaginationState(u, ch) ==
    [page |-> u.page[ch], cache |-> u.cache[ch], lastDocs |-> u.lastDocs[ch],
     hasMore |-> u.hasMore[ch], rows |-> u.rows[ch]]

\* The useEffect body: fetch the active tab's page and its total.  prev is the
\* state of the render before the one whose effect this is.
RunEffect(v, st, prev, u, tk) ==
    LET ch == u.tabValue
        u0 == IF v = "p000" THEN [u EXCEPT !.error = NoError, !.loading = TRUE]
              ELSE u
        cl == Closure(u0, ch)
        pg == u0.page[ch]
        new == (IF CacheHit(cl, pg) THEN {}
                ELSE {[PageTask(v, st, ch, pg, cl) EXCEPT
                          !.before = <<PaginationState(prev, ch)>>]})
               \cup {TotalTask(st, ch)}
    IN  [ui |-> FetchSync(u0, ch, pg, cl), tasks |-> AddAll(tk, new)]

\* The effect's dependency list.  In part_000 it holds the useCallback-ed
\* fetch functions, which change whenever a cache or cursor list is set.
DepsChanged(v, prev, cur, touched) ==
    \/ prev.tabValue # cur.tabValue
    \/ prev.page # cur.page
    \/ v = "p000" /\ touched

\* The render that follows a batch of state updates, and its effect.
AfterRender(v, st, prev, cur, tk, touched) ==
    IF DepsChanged(v, prev, cur, touched)
    THEN RunEffect(v, st, prev, cur, tk)
    ELSE [ui |-> cur, tasks |-> tk]

\* fetchX's continuation after getDocs: the try branch and the catch branch.
ApplyPage(u, t) ==
    [u EXCEPT
        !.rows[t.ch] = t.res,
        !.cache[t.ch] = MapPut(u.cache[t.ch], t.page, t.res),
        !.lastDocs[t.ch] =
            IF t.res # <<>>
            THEN MapPut(t.clLastDocs, t.page, t.res[Len(t.res)])
            ELSE u.lastDocs[t.ch],
        !.hasMore[t.ch] = (Len(t.res) = pageSize),
        !.loading = FALSE]

FailPage(u) == [u EXCEPT !.error = "fetch", !.loading = FALSE]

\* fetchTotalX's continuation.
ApplyTotal(u, t) == [u EXCEPT !.total[t.ch] = t.n]

FailTotal(u) == [u EXCEPT !.error = "total"]

handleTabChange(v, u, newValue) ==
    IF v = "main"
    THEN [u EXCEPT !.tabValue = newValue,
                   !.page[newValue] = 1,
                   !.lastDocs[newValue] = EmptyMap,
                   !.hasMore[newValue] = TRUE,
                   !.error = NoError]
    ELSE [u EXCEPT !.tabValue = newValue]

(* ------------------------------- export -------------------------------- *)

\* openConfirmDialog(action): the count query is in flight; action is the
\* handleDownloadX of the render in which the button was clicked.
CountTask(st, u, ch) ==
    [Task("count", ch, "count", Closure(u, ch)) EXCEPT
        !.n = CountQuery(st, ch),
        !.atOpen = Pending(st, ch)]

\* openConfirmDialog's continuation: try branch and finally.
ApplyCount(u, t) ==
    [u EXCEPT !.recordCount = t.n,
              !.confirmAction = <<[ch |-> t.ch, cache |-> t.clCache,
                                   lastDocs |-> t.clLastDocs,
                                   atOpen |-> t.atOpen]>>,
              !.showConfirmDialog = TRUE,
              !.loading = FALSE]

\* A catch branch that opens the dialog all the same.
FailCount_OpeningDialog(u) ==
    [u EXCEPT !.error = "count", !.loading = FALSE, !.showConfirmDialog = TRUE]

FailCount(u) == [u EXCEPT !.error = "count", !.loading = FALSE]

\* A close that also drops the active tab's cached pages.
closeConfirmDialog_ClearingCache(u) ==
    [u EXCEPT !.showConfirmDialog = FALSE,
              !.confirmAction = <<>>,
              !.recordCount = 0,
              !.cache[u.tabValue] = EmptyMap]

closeConfirmDialog(u) ==
    [u EXCEPT !.showConfirmDialog = FALSE,
              !.confirmAction = <<>>,
              !.recordCount = 0]

\* handleDownloadX up to its first await: the confirm-time query is in flight.
ExportTask(v, st, u, a) ==
    LET sel == ExportQuery(v, st, a.ch)
    IN  [Task("export", a.ch, "read", a) EXCEPT
            !.docs = sel,
            !.shown = u.recordCount,
            !.reflag = SeqToSet(sel) \cap st[a.ch].exported,
            !.atOpen = a.atOpen,
            !.atConfirm = Pending(st, a.ch)]

\* confirmDownload: run the armed action, then close the dialog.
confirmDownload(u) ==
    IF u.confirmAction # <<>>
    THEN closeConfirmDialog([u EXCEPT !.loading = TRUE])
    ELSE closeConfirmDialog(u)

\* A slice that runs one document into the next chunk.
Chunk_Overlapping(docs, i) == SubSeq(docs, i + 1, Min(i + batchSize + 1, Len(docs)))

\* docs.slice(i, i + batchSize)
Chunk(docs, i) == SubSeq(docs, i + 1, Min(i + batchSize, Len(docs)))

\* batch.update(docRef, {exported: true}) for each document of the chunk; commit.
CommitChunk(st, ch, chunk) ==
    [st EXCEPT ![ch].exported = @ \cup SeqToSet(chunk)]

\* What the catch branch of handleDownloadX surfaces: a fixed text plus the
\* store's message.  It names no outcome kind and carries no count.
ExportFailure(ch, flagged) == [kind |-> "ExportFailed", flagged |-> <<>>]

\* A handler whose catch is not followed by a finally block.
FailExport_KeepLoading(u) == [u EXCEPT !.error = "export"]

FailExport(u) == [u EXCEPT !.error = "export", !.loading = FALSE]

\* "Clear cache and refresh data": the four resets after the file is produced.
Invalidate(u, ch) ==
    [u EXCEPT !.cache[ch] = EmptyMap,
              !.page[ch] = 1,
              !.lastDocs[ch] = EmptyMap,
              !.hasMore[ch] = TRUE]

\* The handler's own fetchX: the one of the render in which the export button
\* was clicked, with that render's cache and cursor list.
HandlerClosure(t) == [cache |-> t.clCache, lastDocs |-> t.clLastDocs]

\* handleDownloadX after its last commit: file, resets, await fetchX(1), and,
\* when fetchX returns at once from its cache, await fetchTotalX().
FinishUi(u, t) ==
    FetchSync(Invalidate(u, t.ch), t.ch, 1, HandlerClosure(t))

\* The pagination state of a channel is the one invalidate() leaves.
IsInvalidated(u, ch) ==
    /\ u.cache[ch] = EmptyMap
    /\ u.lastDocs[ch] = EmptyMap
    /\ u.page[ch] = 1
    /\ u.hasMore[ch]

FinishTask(v, st, u, t) ==
    IF CacheHit(HandlerClosure(t), 1)
    THEN [t EXCEPT !.pc = "total", !.n = TotalQuery(st, t.ch),
                   !.invalidated = IsInvalidated(FinishUi(u, t), t.ch),
                   !.served = "cache"]
    ELSE [t EXCEPT !.pc = "page", !.page = 1,
                   !.res = PageQuery(v, st, t.ch, <<>>),
                   !.invalidated = IsInvalidated(FinishUi(u, t), t.ch),
                   !.served = "store"]

\* The summary kept of an export handler that has returned.
Summary(t, attempted, invalidated, failed, report) ==
    [ch |-> t.ch, docs |-> t.docs, shown |-> t.shown, written |-> t.written,
     atOpen |-> t.atOpen, atConfirm |-> t.atConfirm,
     attempted |-> attempted, invalidated |-> invalidated, served |-> t.served,
     failed |-> failed, report |-> report]

(* -------------------------------- Init --------------------------------- *)

\* The channel whose size varies; the other channels start with one pending
\* document.
PrimaryChannel(v) ==
    CASE v = "main" -> "numbers"
      [] v = "p000" -> "ussd"
      [] OTHER -> TellerChannel

\* The tabs the user is explored on: the first-shown one and the primary one
\* (in "main" they coincide, and one other tab stands for both others).
ExploredTabs(v) == {InitialTab(v), PrimaryChannel(v), "transactions"}

\* data_purchase with n approved pending documents, one that is not approved,
\* and one more approved document repeating the externalRef of document 1.
GroupedStore(n) == [InitStore(n, TRUE) EXCEPT !.n = n + 2, !.dup = {n + 2}]

\* A run started on such a collection is explored on the USSD tab.
GroupedRun(st) == st["ussd"].dup # {}

TabsOf(v, st) == IF GroupedRun(st) THEN {"ussd"} ELSE ExploredTabs(v)

\* Pending documents of a channel at start: one page, two and three pages the
\* last of them short, and one more than the export cap.
OnePage == 1
TwoPages == pageSize + 1
ThreePages == 2 * pageSize + 1
OverCap == maxExportRecords + 1

\* The runs explored: a start size with the clicks, external writes and store
\* failures the run may spend.
Scenario(n, ops, ext, fail) == [n |-> n, ops |-> ops, ext |-> ext, fail |-> fail]

Scenarios ==
    { Scenario(OnePage, MaxOps, 0, 0),
      Scenario(OnePage, MaxOps - 2, MaxExt, 0),
      Scenario(OnePage, MaxOps - 2, 0, MaxFail),
      Scenario(ThreePages, MaxOps - 2, MaxExt, 0),
      Scenario(ThreePages, MaxOps - 3, 0, MaxFail),
      Scenario(OverCap, MaxOps - 3, 0, MaxFail) }

Init ==
    /\ variant \in Variants
    /\ \/ \E sc \in Scenarios :
            /\ store = [c \in StoreChannels |->
                          CASE c = PrimaryChannel(variant) ->
                                  InitStore(sc.n, StatusFilter(c))
                            [] c = TellerChannel -> InitStore(0, FALSE)
                            [] OTHER -> InitStore(1, StatusFilter(c))]
            /\ opsLeft = sc.ops
            /\ extLeft = sc.ext
            /\ failLeft = sc.fail
       \/ /\ variant = "main"
          /\ store = [c \in StoreChannels |->
                        CASE c = "ussd" -> GroupedStore(TwoRows)
                          [] c = TellerChannel -> InitStore(0, FALSE)
                          [] OTHER -> InitStore(1, StatusFilter(c))]
          /\ opsLeft = MaxOps - 2
          /\ extLeft = 0
          /\ failLeft = 0
       \* two tabs with more than one page each
       \/ /\ variant = "main"
          /\ store = [c \in StoreChannels |->
                        CASE c \in {"numbers", "transactions"} ->
                                InitStore(TwoPages, StatusFilter(c))
                          [] c = TellerChannel -> InitStore(0, FALSE)
                          [] OTHER -> InitStore(1, StatusFilter(c))]
          /\ opsLeft = MaxOps
          /\ extLeft = 0
          /\ failLeft = 0
    /\ LET r == RunEffect(variant, store, InitialUi(variant), InitialUi(variant), EmptyBag)
       IN  ui = r.ui /\ tasks = r.tasks
    /\ timers = {}
    /\ files = <<>>
    /\ ended = <<>>
    /\ cancels = 0
    /\ events = {}
    /\ calc = NoCalc

(* ------------------------------- actions ------------------------------- *)

\* The content section is rendered only when !loading && !error.
ContentVisible(u) == ~u.loading /\ u.error = NoError

\* The confirmation dialog is a full-screen overlay: nothing under it can be clicked.
CanClick ==
    /\ ~ui.showConfirmDialog
    /\ opsLeft > 0
    /\ BagCardinality(tasks) < MaxTasks

Render(prev, cur, tk, touched) ==
    LET r == AfterRender(variant, store', prev, cur, tk, touched)
    IN  ui' = r.ui /\ tasks' = r.tasks

TabChange(newValue) ==
    /\ Paginated
    /\ CanClick
    /\ newValue \in Channels
    /\ store' = store
    /\ Render(ui, handleTabChange(variant, ui, newValue), tasks, FALSE)
    /\ opsLeft' = opsLeft - 1
    /\ events' = events \cup {"tab"}
    /\ UNCHANGED <<variant, calc, cancels, timers, files, ended, extLeft, failLeft>>

\* fetchX resumes after its await with the snapshot.
PageCont(t) ==
    /\ t.pc = "page"
    /\ t.kind = "page"
    /\ store' = store
    /\ Render(ui, ApplyPage(ui, t), Remove(tasks, t), TRUE)
    /\ UNCHANGED <<variant, calc, events, cancels, timers, files, ended, opsLeft, extLeft, failLeft>>

\* getDocs rejects: fetchX's catch branch.
PageFail(t) ==
    /\ t.pc = "page"
    /\ t.kind = "page"
    /\ failLeft > 0
    /\ failLeft' = failLeft - 1
    /\ store' = store
    /\ Render(ui, FailPage(ui), Remove(tasks, t), FALSE)
    /\ events' = events \cup {"failure"}
    /\ UNCHANGED <<variant, calc, cancels, timers, files, ended, opsLeft, extLeft>>

TotalCont(t) ==
    /\ t.pc = "total"
    /\ t.kind = "total"
    /\ ui' = ApplyTotal(ui, t)
    /\ tasks' = Remove(tasks, t)
    /\ UNCHANGED <<variant, calc, events, cancels, store, timers, files, ended, opsLeft, extLeft, failLeft>>

TotalFail(t) ==
    /\ t.pc = "total"
    /\ t.kind = "total"
    /\ failLeft > 0
    /\ failLeft' = failLeft - 1
    /\ ui' = FailTotal(ui)
    /\ tasks' = Remove(tasks, t)
    /\ events' = events \cup {"failure"}
    /\ UNCHANGED <<variant, calc, cancels, store, timers, files, ended, opsLeft, extLeft>>

\* The useCallback dependencies of a debounced handler: a new debounced
\* function, with a timer of its own, is made whenever they change.
HandlerDeps(v, u, dir, ch) ==
    IF v = "main"
    THEN IF dir = "prev" THEN <<u.tabValue, u.page>> ELSE <<u.tabValue, u.hasMore>>
    ELSE IF dir = "prev" THEN <<u.page[ch]>> ELSE <<u.hasMore[ch]>>

\* The test the debounced function makes when its timer fires, on the values
\* of the render it was made in.
HandlerTest(u, dir, ch) ==
    IF dir = "prev" THEN u.page[ch] > 1 ELSE u.hasMore[ch]

\* at: the clicks the user had left when the timer was started (the more, the
\* earlier); every timer runs for the same 300 ms.
Timer(v, u, dir, at) ==
    [dir |-> dir, ch |-> u.tabValue,
     ok |-> HandlerTest(u, dir, u.tabValue),
     deps |-> HandlerDeps(v, u, dir, u.tabValue),
     at |-> at]

\* debounce: clearTimeout(timeout) of the same debounced function.
SameHandler(a, b) ==
    a.dir = b.dir /\ a.ch = b.ch /\ a.ok = b.ok /\ a.deps = b.deps

\* The Previous / Next buttons: disabled={page === 1} / disabled={!hasMore}.
NavEnabled(u, dir) ==
    IF dir = "prev" THEN u.page[u.tabValue] # 1 ELSE u.hasMore[u.tabValue]

\* setPage((prev) => prev - 1) / setPage((prev) => prev + 1)
StepPage(u, tm) ==
    IF tm.ok
    THEN [u EXCEPT !.page[tm.ch] = IF tm.dir = "prev" THEN @ - 1 ELSE @ + 1]
    ELSE u

\* A click on Previous or Next (re)starts the timer of the current handler.
NavClick(dir) ==
    /\ Paginated
    /\ CanClick
    /\ ContentVisible(ui)
    /\ Displayed(variant, store, ui.rows[ui.tabValue], ui.tabValue) # <<>>
    /\ NavEnabled(ui, dir)
    /\ LET tm == Timer(variant, ui, dir, opsLeft)
       IN  timers' = {x \in timers : ~SameHandler(x, tm)} \cup {tm}
    /\ opsLeft' = opsLeft - 1
    /\ UNCHANGED <<variant, calc, events, cancels, store, ui, tasks, files, ended, extLeft, failLeft>>

\* 300 ms later the debounced function runs: the timer started first fires
\* first.
NavFire(tm) ==
    /\ tm \in timers
    /\ \A x \in timers : x.at <= tm.at
    /\ timers' = timers \ {tm}
    /\ store' = store
    /\ Render(ui, StepPage(ui, tm), tasks, FALSE)
    /\ UNCHANGED <<variant, calc, events, cancels, files, ended, opsLeft, extLeft, failLeft>>

\* The error banner clears itself after 5 seconds.
ClearError ==
    /\ ui.error # NoError
    /\ ui' = [ui EXCEPT !.error = NoError]
    /\ UNCHANGED <<variant, calc, events, cancels, store, tasks, timers, files, ended, opsLeft, extLeft, failLeft>>

\* The export button of the active tab; it is rendered only with rows.
OpenConfirmClick ==
    /\ Paginated
    /\ CanClick
    /\ ContentVisible(ui)
    /\ Displayed(variant, store, ui.rows[ui.tabValue], ui.tabValue) # <<>>
    /\ ui' = [ui EXCEPT !.loading = TRUE]
    /\ tasks' = AddAll(tasks, {CountTask(store, ui, ui.tabValue)})
    /\ opsLeft' = opsLeft - 1
    /\ events' = events \cup {"dialog"}
    /\ UNCHANGED <<variant, calc, cancels, store, timers, files, ended, extLeft, failLeft>>

CountCont(t) ==
    /\ t.pc = "count"
    /\ ui' = ApplyCount(ui, t)
    /\ tasks' = Remove(tasks, t)
    /\ UNCHANGED <<variant, calc, events, cancels, store, timers, files, ended, opsLeft, extLeft, failLeft>>

CountFail(t) ==
    /\ t.pc = "count"
    /\ failLeft > 0
    /\ failLeft' = failLeft - 1
    /\ ui' = FailCount(ui)
    /\ tasks' = Remove(tasks, t)
    /\ events' = events \cup {"failure"}
    /\ UNCHANGED <<variant, calc, cancels, store, timers, files, ended, opsLeft, extLeft>>

\* The dialog's Cancel button.
CloseConfirm ==
    /\ ui.showConfirmDialog
    /\ ui' = closeConfirmDialog(ui)
    /\ cancels' = cancels + 1
    /\ UNCHANGED <<variant, calc, events, store, tasks, timers, files, ended, opsLeft, extLeft, failLeft>>

\* The dialog's Confirm button.
ConfirmClick ==
    /\ ui.showConfirmDialog
    /\ ui' = confirmDownload(ui)
    /\ tasks' = IF ui.confirmAction # <<>>
                THEN AddAll(tasks, {ExportTask(variant, store, ui, ui.confirmAction[1])})
                ELSE tasks
    /\ UNCHANGED <<variant, calc, events, cancels, store, timers, files, ended, opsLeft, extLeft, failLeft>>

\* The last statements of a successful handleDownloadX, from downloadExcel on.
Finish(u, t) ==
    /\ files' = Append(files, [ch |-> t.ch, docs |-> t.docs])
    /\ Render(ui, FinishUi(u, t),
              AddAll(Remove(tasks, t), {FinishTask(variant, store', u, t)}), TRUE)

\* handleDownloadX resumes with the confirm-time snapshot.
ExportAfterRead(t) ==
    /\ t.kind = "export" /\ t.pc = "read"
    /\ store' = store
    /\ LET u == [ui EXCEPT !.recordCount = Len(t.docs)]
       IN  IF t.docs = <<>>
           THEN Finish(u, t)
           ELSE /\ ui' = u
                /\ tasks' = AddAll(Remove(tasks, t), {[t EXCEPT !.pc = "chunks"]})
                /\ files' = files
    /\ UNCHANGED <<variant, calc, events, cancels, timers, ended, opsLeft, extLeft, failLeft>>

\* The confirm-time getDocs rejects: catch and finally.
ExportReadFail(t) ==
    /\ t.kind = "export" /\ t.pc = "read"
    /\ failLeft > 0
    /\ failLeft' = failLeft - 1
    /\ ui' = FailExport(ui)
    /\ tasks' = Remove(tasks, t)
    /\ ended' = Append(ended, Summary(t, FALSE, IsInvalidated(ui', t.ch), TRUE,
                                  ExportFailure(t.ch, 0)))
    /\ events' = events \cup {"failure"}
    /\ UNCHANGED <<variant, calc, cancels, store, timers, files, opsLeft, extLeft>>

\* One batch.commit() is applied and the loop goes on.
ExportCommit(t) ==
    /\ t.kind = "export" /\ t.pc = "chunks"
    /\ LET chunk == Chunk(t.docs, t.i)
           t2 == [t EXCEPT !.i = t.i + batchSize,
                           !.written = Append(t.written, chunk)]
       IN  /\ store' = CommitChunk(store, t.ch, chunk)
           /\ IF t2.i < Len(t.docs)
              THEN /\ ui' = ui
                   /\ tasks' = AddAll(Remove(tasks, t), {t2})
                   /\ files' = files
              ELSE /\ files' = Append(files, [ch |-> t.ch, docs |-> t.docs])
                   /\ Render(ui, FinishUi(ui, t2),
                             AddAll(Remove(tasks, t),
                                    {FinishTask(variant, store', ui, t2)}), TRUE)
    /\ events' = events \cup {"write"}
    /\ UNCHANGED <<variant, calc, cancels, timers, ended, opsLeft, extLeft, failLeft>>

\* A handler that would go on with the loop after a rejected commit.
ExportCommitFail_Retrying(t) ==
    /\ t.kind = "export" /\ t.pc = "chunks"
    /\ failLeft > 0
    /\ failLeft' = failLeft - 1
    /\ ui' = FailExport(ui)
    /\ tasks' = tasks
    /\ ended' = Append(ended, Summary(t, TRUE, IsInvalidated(ui', t.ch), TRUE,
                                  ExportFailure(t.ch, t.i)))
    /\ events' = events \cup {"failure"}
    /\ UNCHANGED <<variant, calc, cancels, store, timers, files, opsLeft, extLeft>>

\* One batch.commit() rejects: catch and finally, nothing else.
ExportCommitFail(t) ==
    /\ t.kind = "export" /\ t.pc = "chunks"
    /\ failLeft > 0
    /\ failLeft' = failLeft - 1
    /\ ui' = FailExport(ui)
    /\ tasks' = Remove(tasks, t)
    /\ ended' = Append(ended, Summary(t, TRUE, IsInvalidated(ui', t.ch), TRUE,
                                  ExportFailure(t.ch, t.i)))
    /\ events' = events \cup {"failure"}
    /\ UNCHANGED <<variant, calc, cancels, store, timers, files, opsLeft, extLeft>>

\* The handler's awaited fetchX(1) resumes; then fetchTotalX() is issued.
ExportPageCont(t) ==
    /\ t.kind = "export" /\ t.pc = "page"
    /\ store' = store
    /\ Render(ui, ApplyPage(ui, t),
              AddAll(Remove(tasks, t),
                     {[t EXCEPT !.pc = "total", !.n = TotalQuery(store, t.ch)]}),
              TRUE)
    /\ UNCHANGED <<variant, calc, events, cancels, timers, files, ended, opsLeft, extLeft, failLeft>>

ExportPageFail(t) ==
    /\ t.kind = "export" /\ t.pc = "page"
    /\ failLeft > 0
    /\ failLeft' = failLeft - 1
    /\ ui' = FailPage(ui)
    /\ tasks' = AddAll(Remove(tasks, t),
                       {[t EXCEPT !.pc = "total", !.n = TotalQuery(store, t.ch)]})
    /\ events' = events \cup {"failure"}
    /\ UNCHANGED <<variant, calc, cancels, store, timers, files, ended, opsLeft, extLeft>>

\* The handler's awaited fetchTotalX() resumes; finally setLoading(false).
ExportTotalCont(t) ==
    /\ t.kind = "export" /\ t.pc = "total"
    /\ ui' = [ApplyTotal(ui, t) EXCEPT !.loading = FALSE]
    /\ tasks' = Remove(tasks, t)
    /\ ended' = Append(ended, Summary(t, t.docs # <<>>, t.invalidated, FALSE,
                                  [kind |-> "Success", flagged |-> <<>>]))
    /\ UNCHANGED <<variant, calc, events, cancels, store, timers, files, opsLeft, extLeft, failLeft>>

ExportTotalFail(t) ==
    /\ t.kind = "export" /\ t.pc = "total"
    /\ failLeft > 0
    /\ failLeft' = failLeft - 1
    /\ ui' = [FailTotal(ui) EXCEPT !.loading = FALSE]
    /\ tasks' = Remove(tasks, t)
    /\ ended' = Append(ended, Summary(t, t.docs # <<>>, t.invalidated, FALSE,
                                  [kind |-> "Success", flagged |-> <<>>]))
    /\ events' = events \cup {"failure"}
    /\ UNCHANGED <<variant, calc, cancels, store, timers, files, opsLeft, extLeft>>

(* Another session or the backend writes to the store: a new pending        *)
(* document is created, or a pending document is flagged exported.          *)
ExternalCreate(ch) ==
    /\ extLeft > 0
    /\ ch \in Channels
    /\ extLeft' = extLeft - 1
    /\ store' = [store EXCEPT ![ch].n = @ + 1]
    /\ events' = events \cup {"write", "external"}
    /\ UNCHANGED <<variant, calc, cancels, ui, tasks, timers, files, ended, opsLeft, failLeft>>

ExternalFlag(ch, d) ==
    /\ extLeft > 0
    /\ ch \in Channels
    /\ d \in Pending(store, ch)
    /\ extLeft' = extLeft - 1
    /\ store' = [store EXCEPT ![ch].exported = @ \cup {d},
                              ![ch].external = @ \cup {d}]
    /\ events' = events \cup {"write", "external"}
    /\ UNCHANGED <<variant, calc, cancels, ui, tasks, timers, files, ended, opsLeft, failLeft>>

\* The documents an external writer is explored on: the ends of the order.
ExternalTargets(ch) == {1, store[ch].n} \cap Pending(store, ch)

Next ==
    \/ \E c \in TabsOf(variant, store) : TabChange(c)
    \/ \E t \in BagToSet(tasks) : PageCont(t)
    \/ \E t \in BagToSet(tasks) : PageFail(t)
    \/ \E t \in BagToSet(tasks) : TotalCont(t)
    \/ \E t \in BagToSet(tasks) : TotalFail(t)
    \/ ClearError
    \/ \E dir \in {"prev", "next"} : NavClick(dir)
    \/ \E tm \in timers : NavFire(tm)
    \/ OpenConfirmClick
    \/ \E t \in BagToSet(tasks) : CountCont(t)
    \/ \E t \in BagToSet(tasks) : CountFail(t)
    \/ CloseConfirm
    \/ ConfirmClick
    \/ \E t \in BagToSet(tasks) : ExportAfterRead(t)
    \/ \E t \in BagToSet(tasks) : ExportReadFail(t)
    \/ \E t \in BagToSet(tasks) : ExportCommit(t)
    \/ \E t \in BagToSet(tasks) : ExportCommitFail(t)
    \/ \E t \in BagToSet(tasks) : ExportPageCont(t)
    \/ \E t \in BagToSet(tasks) : ExportPageFail(t)
    \/ \E t \in BagToSet(tasks) : ExportTotalCont(t)
    \/ \E t \in BagToSet(tasks) : ExportTotalFail(t)
    \/ ExternalCreate(PrimaryChannel(variant))
    \/ \E d \in ExternalTargets(PrimaryChannel(variant)) :
          ExternalFlag(PrimaryChannel(variant), d)

Spec == Init /\ [][Next]_vars

(* --------------------------- teller dashboard -------------------------- *)
(* The rSwitch select and the search box are left at their empty values,   *)
(* and of the five tabs "all" and "recent" are visited.                    *)

\* teller_response at start: n approved pending documents of today, then one
\* that is not approved, one of an earlier day, and one repeating the
\* transid of document 1.
TellerStore(n) ==
    [InitStore(n + 3, FALSE) EXCEPT !.unapproved = {n + 1},
                                    !.old = {n + 2},
                                    !.dup = {n + 3}]

\* transaction.transid || transaction.transaction_id
TransId(st, d) == IF d \in st.dup THEN 1 ELSE d

\* The onSnapshot callback's filter: the first document of each transid, in
\* snapshot order.
UniqueTransactions(st) ==
    SelectSeq([i \in 1..st.n |-> i],
              LAMBDA d : \A e \in st.dup \cup {1} :
                            e < d => TransId(st, e) # TransId(st, d))

\* What setTransactions receives: the documents kept, with their exported flags.
TellerMirror(st) ==
    [docs |-> UniqueTransactions(st[TellerChannel]),
     exported |-> st[TellerChannel].exported]

IsApproved(st, d) == d \notin st[TellerChannel].unapproved

IsToday(st, d) == d \notin st[TellerChannel].old

\* downloadExcel's dataToExport, from the component's transactions.
DataToExport(st, u) ==
    IF u.activeTab = "recent"
    THEN SelectSeq(u.transactions.docs,
                   LAMBDA d : /\ IsApproved(st, d)
                              /\ IsToday(st, d)
                              /\ d \notin u.transactions.exported)
    ELSE SelectSeq(u.transactions.docs, LAMBDA d : IsApproved(st, d))

\* The download button: disabled={loading || (recent && nothing filtered)}.
DownloadEnabled(st, u) ==
    /\ ~u.loading
    /\ ~(u.activeTab = "recent" /\ DataToExport(st, u) = <<>>)

\* The updateDoc calls of one downloadExcel, all issued at once.
UpdatesTask(st, data) ==
    [Task("export", TellerChannel, "writes", NoClosure) EXCEPT
        !.docs = data,
        !.reflag = SeqToSet(data) \cap st[TellerChannel].exported,
        !.atConfirm = SeqToSet(data)]

\* The updateDoc calls of a task that have neither landed nor been rejected.
Outstanding(t) ==
    SeqToSet(t.docs) \ (SeqToSet(Flatten(t.written)) \cup SeqToSet(t.res))

TellerScenarios ==
    { Scenario(TwoRows, MaxOps - 1, MaxExt, 0),
      Scenario(TwoRows, MaxOps - 2, 0, MaxFail),
      Scenario(OverCap, MaxOps - 3, 0, 0) }

InitTeller ==
    /\ variant = "teller"
    /\ \E sc \in TellerScenarios :
         /\ store = [c \in StoreChannels |->
                       IF c = TellerChannel THEN TellerStore(sc.n)
                       ELSE InitStore(0, FALSE)]
         /\ opsLeft = sc.ops
         /\ extLeft = sc.ext
         /\ failLeft = sc.fail
    /\ ui = InitialUi(variant)
    /\ tasks = EmptyBag
    /\ timers = {}
    /\ files = <<>>
    /\ ended = <<>>
    /\ cancels = 0
    /\ events = {}
    /\ calc = NoCalc

\* The onSnapshot callback, some time after the collection changed.
TellerSnapshot ==
    /\ variant = "teller"
    /\ ui.loading \/ ui.transactions # TellerMirror(store)
    /\ ui' = [ui EXCEPT !.transactions = TellerMirror(store), !.loading = FALSE]
    /\ UNCHANGED <<variant, calc, events, cancels, store, tasks, timers, files, ended, opsLeft,
                   extLeft, failLeft>>

TellerSetTab(tab) ==
    /\ variant = "teller"
    /\ opsLeft > 0
    /\ opsLeft' = opsLeft - 1
    /\ ui' = [ui EXCEPT !.activeTab = tab]
    /\ UNCHANGED <<variant, calc, events, cancels, store, tasks, timers, files, ended, extLeft,
                   failLeft>>

\* downloadExcel(rSwitchFilter) up to its await.
TellerDownload ==
    /\ variant = "teller"
    /\ opsLeft > 0
    /\ BagCardinality(tasks) < MaxTasks
    /\ DownloadEnabled(store, ui)
    /\ opsLeft' = opsLeft - 1
    /\ LET data == DataToExport(store, ui)
           t == UpdatesTask(store, data)
       IN  IF data = <<>>
           THEN UNCHANGED <<tasks, files, ended>>
           ELSE /\ files' = Append(files, [ch |-> TellerChannel, docs |-> data])
                /\ IF ui.activeTab = "recent"
                   THEN tasks' = AddAll(tasks, {t}) /\ ended' = ended
                   ELSE /\ tasks' = tasks
                        /\ ended' = Append(ended,
                              Summary(t, FALSE, FALSE, FALSE,
                                      [kind |-> "Success", flagged |-> <<>>]))
    /\ UNCHANGED <<variant, calc, events, cancels, store, ui, timers, extLeft, failLeft>>

\* What is left of a task once one more of its calls is settled.
Settle(tk, t, t2) ==
    IF Outstanding(t2) = {} THEN Remove(tk, t) ELSE AddAll(Remove(tk, t), {t2})

\* The summary of a downloadExcel, kept once every one of its calls is settled:
\* it alerted a failure if one of them was rejected.
TellerSummary(t) ==
    IF t.pc = "rejected"
    THEN Summary(t, TRUE, FALSE, TRUE, ExportFailure(t.ch, Len(t.written)))
    ELSE Summary(t, TRUE, FALSE, FALSE, [kind |-> "Success", flagged |-> <<>>])

\* One updateDoc is applied; Promise.all resolves with the last of them.
TellerUpdateLand(t, d) ==
    /\ t.kind = "export" /\ t.pc \in {"writes", "rejected"}
    /\ d \in Outstanding(t)
    /\ LET t2 == [t EXCEPT !.written = Append(t.written, <<d>>)]
       IN  /\ store' = CommitChunk(store, t.ch, <<d>>)
           /\ tasks' = Settle(tasks, t, t2)
           /\ ended' = IF Outstanding(t2) = {}
                       THEN Append(ended, TellerSummary(t2))
                       ELSE ended
    /\ events' = events \cup {"write"}
    /\ UNCHANGED <<variant, calc, cancels, ui, timers, files, opsLeft, extLeft, failLeft>>

\* One updateDoc rejects; the first rejection rejects Promise.all: catch, alert.
TellerUpdateFail(t, d) ==
    /\ t.kind = "export" /\ t.pc \in {"writes", "rejected"}
    /\ d \in Outstanding(t)
    /\ failLeft > 0
    /\ failLeft' = failLeft - 1
    /\ LET t2 == [t EXCEPT !.res = Append(t.res, d), !.pc = "rejected"]
       IN  /\ tasks' = Settle(tasks, t, t2)
           /\ ended' = IF Outstanding(t2) = {}
                       THEN Append(ended, TellerSummary(t2))
                       ELSE ended
    /\ events' = events \cup {"failure"}
    /\ UNCHANGED <<variant, calc, cancels, store, ui, timers, files, opsLeft, extLeft>>

NextTeller ==
    \/ TellerSnapshot
    \/ \E tab \in {"all", "recent"} : TellerSetTab(tab)
    \/ TellerDownload
    \/ \E t \in BagToSet(tasks) : \E d \in Outstanding(t) : TellerUpdateLand(t, d)
    \/ \E t \in BagToSet(tasks) : \E d \in Outstanding(t) : TellerUpdateFail(t, d)

InitAll == Init \/ InitTeller

NextAll == Next \/ NextTeller

SpecAll == InitAll /\ [][NextAll]_vars

(* ------------------------------- claims -------------------------------- *)

Exports == {t \in BagToSet(tasks) : t.kind = "export"}

Ended == {ended[i] : i \in 1..Len(ended)}

\* The exports of a channel between their confirm-time fetch and their last
\* flag write.
Exporting(ch) ==
    LET S == {t \in Exports : t.ch = ch /\ t.pc \in {"read", "chunks"}}
    IN  BagCardinality([t \in S |-> CopiesIn(t, tasks)])

\* C1: exactly-once export: a document already flagged exported when an
\* export's confirm-time fetch runs is never among that export's rows (so it
\* is never flagged again), and no document is in the rows of two files.
C1_ExactlyOnce ==
    /\ \A t \in Exports : t.reflag = {}
    /\ \A i, j \in 1..Len(files) :
         (i # j /\ files[i].ch = files[j].ch)
            => SeqToSet(files[i].docs) \cap SeqToSet(files[j].docs) = {}

\* C2: at most one export per channel is between its confirm-time fetch and
\* its last flag write, whatever the user does with the tabs meanwhile.
C2_NoConcurrentExport == \A ch \in AllChannels : Exporting(ch) <= 1

\* C3: the page-1 load an export triggers after its writes is a real store
\* fetch, never the page-1 entry cached before the export.
C3_ReloadFetches ==
    /\ \A t \in Exports : t.served # "cache"
    /\ \A e \in Ended : e.served # "cache"

\* The documents flagged exported in the store that a channel's view holds:
\* displayed rows and cached pages.
ShownExported(ch) ==
    (SeqToSet(ui.rows[ch])
       \cup UNION {SeqToSet(ui.cache[ch][p]) : p \in DOMAIN ui.cache[ch]})
    \cap store[ch].exported

\* C4: once an export of a channel has completed and the channel is not
\* loading, its view (rows and cached pages) holds no exported document.
C4_NoExportedShown ==
    \A ch \in AllChannels :
       ( /\ \E e \in Ended : e.ch = ch /\ e.attempted
         /\ \A t \in BagToSet(tasks) : t.ch # ch
         /\ ~ui.loading )
       => ShownExported(ch) = {}

\* C5: every export that attempted a write has left the channel's cache and
\* cursors empty, its page 1 and hasMore true, before it returned.
C5_InvalidatedOnWrite == \A e \in Ended : e.attempted => e.invalidated

\* C6: an export that failed after flagging k > 0 documents reports a
\* PartialExportFailure carrying k; one that flagged nothing does not.
C6_PartialFailureReported ==
    \A e \in Ended :
       e.failed =>
          LET k == Len(Flatten(e.written))
          IN  IF k > 0
              THEN e.report = [kind |-> "PartialExportFailure", flagged |-> <<k>>]
              ELSE e.report.kind # "PartialExportFailure"

\* Everything an export has selected and written so far.
Records == Exports \cup Ended

\* The documents the exports of a channel have flagged.
FlaggedByExports(ch) ==
    UNION {SeqToSet(Flatten(x.written)) : x \in {y \in Records : y.ch = ch}}

Cancelled == ui.showConfirmDialog /\ ~ui'.showConfirmDialog /\ tasks' = tasks

\* C9: closing the dialog without confirming writes nothing to the store,
\* produces no file and changes nothing of the view but the dialog's own open
\* flag, armed action and counted records.
C9_CloseHasNoSideEffects ==
    [][Cancelled =>
          /\ store' = store
          /\ files' = files
          /\ ui' = [ui EXCEPT !.showConfirmDialog = FALSE,
                              !.confirmAction = <<>>,
                              !.recordCount = 0]]_vars

\* The dialog has been closed without confirming while pages were cached, and
\* nothing has been exported.
C9_Witness ==
    /\ cancels > 0
    /\ ~ui.showConfirmDialog
    /\ ui.cache[ui.tabValue] # EmptyMap
    /\ files = <<>>

\* C10: the batch of an export is read at confirm time: a document that became
\* pending after the dialog opened is in it (unless the cap cut it off), and a
\* document flagged exported after the dialog opened is not.
C10_ConfirmRefetches ==
    \A t \in Exports :
       /\ Len(t.docs) < maxExportRecords
             => (t.atConfirm \ t.atOpen) \subseteq SeqToSet(t.docs)
       /\ (t.atOpen \ t.atConfirm) \cap SeqToSet(t.docs) = {}

\* A step in which the count query of an openConfirmDialog is rejected.
CountFetchFailed ==
    \E t \in BagToSet(tasks) :
       t.kind = "count" /\ tasks' = Remove(tasks, t) /\ failLeft' < failLeft

\* C11: when the count fetch of openConfirmDialog fails, an error is surfaced
\* and the busy flag is dropped; the dialog's open flag, armed action and count
\* stay as they were, nothing is written or exported, and no page, cursor,
\* cache or hasMore cell changes.
C11_CountFailureBlocksExport ==
    [][CountFetchFailed =>
          /\ ui' = [ui EXCEPT !.error = "count", !.loading = FALSE]
          /\ store' = store
          /\ files' = files
          /\ ended' = ended
          /\ Exports' = Exports]_vars

\* A count fetch has failed on a tab with a cached page: the error is shown,
\* no dialog is open and no action is armed.
C11_Witness ==
    /\ ui.error = "count"
    /\ ~ui.loading
    /\ ~ui.showConfirmDialog
    /\ ui.confirmAction = <<>>
    /\ ui.cache[ui.tabValue] # EmptyMap

\* C12: an export whose confirm-time fetch returned no record aborts: it
\* writes no flag, produces no file, and tells the user that nothing was
\* eligible.
C12_EmptyExportAborts ==
    /\ \A i \in 1..Len(files) : files[i].docs # <<>>
    /\ \A e \in Ended :
         (e.docs = <<>> /\ ~e.failed)
            => e.written = <<>> /\ e.report.kind = "EmptyExportSet"

\* A step in which the query of the page fetch t is rejected.
PageFetchFailed(t) ==
    t.kind = "page" /\ tasks' = Remove(tasks, t) /\ failLeft' < failLeft

\* C13: when a page fetch fails, the error is surfaced and the channel's page
\* number, cache, cursors, hasMore and displayed rows are those of before the
\* navigation that triggered the fetch.
C13_FailedFetchKeepsPagination ==
    [][\A t \in BagToSet(tasks) :
          PageFetchFailed(t) =>
             /\ ui'.error # NoError
             /\ PaginationState(ui', t.ch) = t.before[1]]_vars

\* The documents of teller_response recorded under the correlation key k.
Members(st, k) == {d \in 1..st.n : TransId(st, d) = k}

\* A group is eligible: a member is approved and no member is exported.
GroupEligible(st, k) ==
    /\ \E d \in Members(st, k) : d \notin st.unapproved
    /\ \A d \in Members(st, k) : d \notin st.exported

\* The groups the teller dashboard has in its pending set: the keys of the
\* transactions its "recent" tab shows and exports.
PendingGroups(st, u) ==
    {TransId(st[TellerChannel], d) :
        d \in SeqToSet(DataToExport(st, [u EXCEPT !.activeTab = "recent"]))}

\* C14: once the teller dashboard mirrors the store, a group of today's
\* documents is in its pending display/export set exactly when a member is
\* approved and no member is exported.
C14_GroupEligibility ==
    (variant = "teller" /\ ~ui.loading /\ ui.transactions = TellerMirror(store))
       => \A d \in 1..store[TellerChannel].n :
             LET st == store[TellerChannel]
                 k == TransId(st, d)
             IN  (Members(st, k) \cap st.old = {})
                    => (k \in PendingGroups(store, ui) <=> GroupEligible(st, k))

\* C15: after a successful export of the teller dashboard, every document
\* recorded under the correlation key of an exported row is flagged exported,
\* not only the row's own document.
C15_WholeGroupFlagged ==
    \A e \in Ended :
       (e.ch = TellerChannel /\ e.attempted /\ ~e.failed)
          => \A d \in SeqToSet(e.docs) :
                LET st == store[TellerChannel]
                IN  Members(st, TransId(st, d)) \subseteq st.exported

\* The number of distinct correlation keys among the documents S.
NumGroups(st, S) == Cardinality({getKey(st, d) : d \in S})

\* C16: on the USSD tab of the first dashboard, whose cards are grouped by
\* key, the count the confirmation dialog shows and the pending total are the
\* number of distinct groups among the pending documents they were taken
\* from, and an export file holds one row per group.
C16_CountsAreGroups ==
    variant = "main" =>
       LET st == store["ussd"]
       IN  /\ (/\ ui.showConfirmDialog
               /\ ui.confirmAction # <<>>
               /\ ui.confirmAction[1].ch = "ussd")
                 => ui.recordCount =
                       Min(NumGroups(st, ui.confirmAction[1].atOpen), maxExportRecords)
           /\ \A t \in BagToSet(tasks) :
                 (t.kind = "total" /\ t.ch = "ussd")
                    => t.n = NumGroups(st, t.atOpen)
           /\ \A i \in 1..Len(files) :
                 files[i].ch = "ussd"
                    => NumGroups(st, SeqToSet(files[i].docs)) = Len(files[i].docs)

\* C17: when the pending set of the channel is the same at openConfirm and at
\* confirm, the export's file has as many rows as the dialog showed records,
\* and a successful export has flagged that many documents.
C17_CountConsistency ==
    /\ \A t \in Exports :
          (t.ch \in AllChannels /\ t.atOpen = t.atConfirm)
             => Len(t.docs) = t.shown
    /\ \A e \in Ended :
          (e.ch \in AllChannels /\ ~e.failed /\ e.atOpen = e.atConfirm)
             => /\ Len(e.docs) = e.shown
                /\ Len(Flatten(e.written)) = e.shown

\* The p-th slice of pageSize of the channel's ordered pending set.
Slice(ch, p) ==
    LET all == Ordered(Pending(store, ch), store[ch].n, Descending(variant))
    IN  SubSeq(all, pageSize * (p - 1) + 1, Min(pageSize * p, Len(all)))

\* C18: in a run in which the user only pages (no tab click, no export
\* dialog) and the store neither fails nor is written, the pages fetched so
\* far are pages 1..k, page p holds the p-th slice of 6 of the ordered pending
\* set (6, 6, 1 of 13), and hasMore is true exactly when the last page fetched
\* holds 6 records.
C18_PaginationBoundary ==
    (Paginated /\ events = {}) =>
       \A ch \in Channels :
          LET c == ui.cache[ch]
              k == Cardinality(DOMAIN c)
          IN  /\ DOMAIN c = 1..k
              /\ \A p \in DOMAIN c : c[p] = Slice(ch, p)
              /\ k > 0 => (ui.hasMore[ch] <=> Len(c[k]) = pageSize)

\* Pages 1, 2, 3 of 13 pending records have been fetched in order: they hold
\* 6, 6 and 1 records and hasMore is false.
C18_Witness ==
    /\ Paginated /\ events = {}
    /\ \E ch \in Channels :
          /\ Cardinality(Pending(store, ch)) = 2 * pageSize + 1
          /\ DOMAIN ui.cache[ch] = 1..3
          /\ Len(ui.cache[ch][1]) = pageSize
          /\ Len(ui.cache[ch][2]) = pageSize
          /\ Len(ui.cache[ch][3]) = 1
          /\ ~ui.hasMore[ch]

\* The page reads a step issues: the getDocs of a fetchX that were not in
\* flight before it.
IssuedReads ==
    {t \in BagToSet(tasks') : t.pc = "page" /\ CopiesIn(t, tasks') > CopiesIn(t, tasks)}

\* A step that changes the tab or a page number, so that the effect calls
\* fetchX for the page of the tab shown.
Navigated == ui'.tabValue # ui.tabValue \/ ui'.page # ui.page

\* C19: a page read is issued only for a page the channel's cache does not
\* hold; and a navigation to a cached page shows the cached rows and issues no
\* read for that channel.
C19_CachedPageNotRead ==
    [][/\ \A t \in IssuedReads : t.page \notin DOMAIN ui'.cache[t.ch]
       /\ LET ch == ui'.tabValue
              pg == ui'.page[ch]
          IN  (Navigated /\ pg \in DOMAIN ui'.cache[ch])
                 => /\ ui'.rows[ch] = ui'.cache[ch][pg]
                    /\ \A t \in IssuedReads : t.ch # ch]_vars

\* Next and then Previous in an undisturbed run: page 1 is shown again from
\* the cache, which holds pages 1 and 2, and no page read is in flight.
C19_Witness ==
    /\ Paginated /\ events = {}
    /\ \E ch \in Channels :
          /\ ui.tabValue = ch
          /\ ui.page[ch] = 1
          /\ DOMAIN ui.cache[ch] = {1, 2}
          /\ ui.rows[ch] = ui.cache[ch][1]
          /\ \A t \in BagToSet(tasks) : t.pc # "page"
          /\ opsLeft = 0

\* C20: every store read in flight for a page n > 1 was issued with the cursor
\* recorded after page n - 1: a page behind the first is never read from the
\* start of the result set.
C20_PageNeedsCursor ==
    \A t \in BagToSet(tasks) :
       (t.pc = "page" /\ t.page > 1)
          => (t.page - 1) \in DOMAIN t.clLastDocs

\* C21: the current page number of every channel is at least 1 in every
\* reachable state, also when a debounced Previous click accepted at page 2
\* fires after a tab change or an export has reset the page to 1.
C21_PageAtLeastOne == \A ch \in AllChannels : ui.page[ch] >= 1

\* C22: next() is a no-op when hasMore is false: no step increments the page
\* number of a channel whose hasMore flag is false when the increment is
\* applied, also when the step is the firing of a debounced Next click.
C22_NextNeedsHasMore ==
    [][\A ch \in AllChannels :
          ui'.page[ch] = ui.page[ch] + 1 => ui.hasMore[ch]]_vars

\* The channels a step operates on: the channel of a store call whose handler
\* resumes in the step, the channel of a debounced click that fires in it, and
\* the tab a click of the step is made on.
OperatedOn ==
    {t.ch : t \in {x \in BagToSet(tasks) : CopiesIn(x, tasks') < CopiesIn(x, tasks)}}
       \cup {tm.ch : tm \in timers \ timers'}
       \cup (IF opsLeft' # opsLeft THEN {ui'.tabValue} ELSE {})

\* C23: channel independence: a pagination, tab-change or export step on
\* one channel leaves the page number, cursors, cache, hasMore flag and rows
\* of every other channel unchanged.
C23_ChannelIndependence ==
    [][\A ch \in AllChannels \ OperatedOn :
          PaginationState(ui', ch) = PaginationState(ui, ch)]_vars

\* A step in which a handler of channel ch reports an error.
ErrorRaisedBy(ch) ==
    /\ ui'.error # NoError
    /\ ui'.error # ui.error
    /\ \E t \in BagToSet(tasks) : t.ch = ch /\ CopiesIn(t, tasks') < CopiesIn(t, tasks)

\* C24: an error raised by an operation on one channel does not block another
\* channel's pagination: when the tab shown is another channel's and its rows
\* and Previous / Next buttons are rendered, they are still rendered after the
\* step that reports the error.
C24_ErrorLeavesOtherChannel ==
    [][\A ch \in AllChannels :
          (ErrorRaisedBy(ch) /\ ui.tabValue # ch /\ ContentVisible(ui))
             => (ui'.tabValue = ui.tabValue /\ ContentVisible(ui'))]_vars

\* The states of the export coordinator, read off the component: a count is
\* in flight, the dialog shows a count with an armed action, an export handler
\* is between its start and its last flag write.
CountingPending == \E t \in BagToSet(tasks) : t.pc = "count"

AwaitingConfirmation == ui.showConfirmDialog /\ ui.confirmAction # <<>>

InExporting(t) == t.kind = "export" /\ t.pc \in {"read", "chunks", "writes", "rejected"}

\* The export handlers a step starts.
Entered ==
    {t \in BagToSet(tasks') :
        /\ InExporting(t) /\ t.written = <<>> /\ t.res = <<>>
        /\ t.pc \in {"read", "writes"}
        /\ CopiesIn(t, tasks') > CopiesIn(t, tasks)}

\* The documents of a channel a step of this session flags exported.
NewFlags(ch) ==
    (store'[ch].exported \ store[ch].exported) \ store'[ch].external

\* C25: the export follows Idle, CountingPending, AwaitingConfirmation,
\* Exporting, Idle: the dialog opens only when a count returns, an export
\* handler starts only by the confirmation of the dialog that shows the count
\* of its channel, and documents are flagged only by a started export handler,
\* so that nothing is flagged without a count shown and confirmed.
C25_ExportStateMachine ==
    [][/\ (ui'.showConfirmDialog /\ ~ui.showConfirmDialog) => CountingPending
       /\ \A t \in Entered :
             /\ AwaitingConfirmation
             /\ ui.confirmAction[1].ch = t.ch
             /\ t.shown = ui.recordCount
             /\ ~ui'.showConfirmDialog
       /\ \A ch \in StoreChannels :
             NewFlags(ch) # {}
                => \E t \in BagToSet(tasks) :
                      /\ InExporting(t) /\ t.ch = ch /\ t.pc # "read"
                      /\ NewFlags(ch) \subseteq SeqToSet(t.docs)]_vars

\* The file a step produces, if it produces one.
NewFiles == {files'[i] : i \in (Len(files) + 1)..Len(files')}

\* The export handlers that, after the step, still have flag writes to make
\* for the documents of file f.
StillWriting(f) ==
    {t \in BagToSet(tasks') :
        /\ t.kind = "export" /\ t.ch = f.ch /\ t.docs = f.docs
        /\ t.pc \in {"read", "chunks", "writes", "rejected"}}

\* The steps of an export handler that has passed its flag writes: the file
\* exists, every selected document was written, the channel was invalidated,
\* and the pending total is asked for only after page 1 was read from the store.
AfterWrites(x, total) ==
    /\ \E i \in 1..Len(files) : files[i].ch = x.ch /\ files[i].docs = x.docs
    /\ Flatten(x.written) = x.docs
    /\ x.invalidated
    /\ total => x.served = "store"

\* C26: a successful export commits all its flag chunks, then produces the
\* file, then invalidates the channel's cache and cursors, then fetches page 1,
\* then refreshes the pending total, and only then returns; no file is
\* produced while flag writes of its export are still to come.
C26_ExportStepOrder ==
    /\ [][\A f \in NewFiles : StillWriting(f) = {}]_vars
    /\ [](\A t \in Exports :
             t.pc \in {"page", "total"} => AfterWrites(t, t.pc = "total"))
    /\ [](\A e \in Ended :
             (e.attempted /\ ~e.failed) =>
                AfterWrites([e EXCEPT !.invalidated = e.invalidated], TRUE))

\* The exports of a channel that have returned without reporting a failure.
SuccessfulExports(ch) == {e \in Ended : e.ch = ch /\ ~e.failed}

\* C27: repeated export converges when nobody else writes: every successful
\* export takes at least min(pending, 1000) of the documents pending when it
\* was confirmed and flags what it takes, so that N pending documents are gone
\* after ceil(N / 1000) exports; an export confirmed with nothing pending
\* selects nothing; and no document is in two export files of its channel.
C27_RepeatedExportConverges ==
    \A ch \in StoreChannels :
       store[ch].external = {} =>
          /\ \A e \in SuccessfulExports(ch) :
                /\ Cardinality(SeqToSet(e.docs) \cap e.atConfirm)
                      >= Min(Cardinality(e.atConfirm), maxExportRecords)
                /\ SeqToSet(e.docs) \subseteq SeqToSet(Flatten(e.written))
                /\ e.atConfirm = {} => e.docs = <<>>
          /\ \A i, j \in 1..Len(files) :
                (i < j /\ files[i].ch = ch /\ files[j].ch = ch)
                   => SeqToSet(files[i].docs) \cap SeqToSet(files[j].docs) = {}

\* The members of the group of document d that the component knows as not
\* exported.
Unexported(st, u, d) ==
    Members(st, TransId(st, d)) \ u.transactions.exported

\* C28: the representative of every group the teller dashboard shows and
\* exports (the transactions it keeps from a snapshot) is the group's first
\* member in snapshot order with exported = false, whenever the group has
\* such a member; it is not simply the first member seen.
C28_RepresentativeNotExported ==
    (variant = "teller" /\ ~ui.loading)
       => \A d \in SeqToSet(ui.transactions.docs) :
             LET S == Unexported(store[TellerChannel], ui, d)
             IN  S # {} => (d \in S /\ \A e \in S : d <= e)

(* ----------------------------- pure helpers ---------------------------- *)

\* A helper under evaluation: which function, from which file, its argument,
\* and the results of the applications made so far.
Calc(fn, src, arg) == [fn |-> fn, src |-> src, arg |-> arg, out |-> <<>>]

\* A fetched record as the grouping code reads it: its document id and its
\* correlation field (externalRef; transid || transaction_id).  NoKey is an
\* absent or empty field.  Ids and field values are strings of one value
\* space: a field value may equal a document id.
MaxRecords == 3
MaxApply == 2
NoKey == 0
KeyValues == 1..2
TxRecord(id, key) == [id |-> id, key |-> key]
TxRecords == {TxRecord(id, key) : id \in 1..MaxRecords, key \in {NoKey} \cup KeyValues}

\* Fetch results: each document appears once.
RecordLists ==
    {txs \in UNION {[1..n -> TxRecords] : n \in 0..MaxRecords} :
        \A i, j \in DOMAIN txs : i # j => txs[i].id # txs[j].id}

\* const getKey = (tx) => tx.externalRef || tx.id
getKeyOf(tx) == IF tx.key # NoKey THEN tx.key ELSE tx.id

\* ussdTransactions.filter(tx => seen.has(k) ? false : (seen.add(k), true))
RECURSIVE FilterSeen(_, _, _)
FilterSeen(txs, i, seen) ==
    IF i > Len(txs) THEN <<>>
    ELSE LET k == getKeyOf(txs[i])
         IN  IF k \in seen THEN FilterSeen(txs, i + 1, seen)
             ELSE <<txs[i]>> \o FilterSeen(txs, i + 1, seen \cup {k})

uniqueTxOf(txs) == FilterSeen(txs, 1, {})

\* The filter of the teller's snapshot callback: a record with a transId is
\* skipped when the id was seen, a record without one is always included.
RECURSIVE FilterTransIds(_, _, _)
FilterTransIds(docs, i, uniqueTransIds) ==
    IF i > Len(docs) THEN <<>>
    ELSE LET transId == docs[i].key
         IN  IF transId # NoKey
             THEN IF transId \in uniqueTransIds
                  THEN FilterTransIds(docs, i + 1, uniqueTransIds)
                  ELSE <<docs[i]>> \o
                       FilterTransIds(docs, i + 1, uniqueTransIds \cup {transId})
             ELSE <<docs[i]>> \o FilterTransIds(docs, i + 1, uniqueTransIds)

\* The filter keying a record without a transId by its document id.
transactionsData_KeyedById(docs) == FilterSeen(docs, 1, {})

transactionsData(docs) == FilterTransIds(docs, 1, {})

Groupers == {"uniqueTx", "transactionsData"}

GrouperSource(fn) ==
    IF fn = "uniqueTx" THEN "UssdTransactionsTab.js" ELSE "Dashboard.js"

Dedupe(fn, txs) == IF fn = "uniqueTx" THEN uniqueTxOf(txs) ELSE transactionsData(txs)

\* A field value as formatPhoneNumber receives it: nothing (undefined or
\* null), a string by its characters, or a number by its decimal digits.
Undefined == [type |-> "undefined", s |-> <<>>]
Str(s) == [type |-> "string", s |-> s]
Num(s) == [type |-> "number", s |-> s]
TypeError == [type |-> "TypeError", s |-> <<>>]

NA == <<"N", "/", "A">>
DigitChars == {"0", "1", "2", "3", "4", "5", "6", "7", "8", "9"}
CountryCode == <<"2", "3", "3">>
NationalNumber == <<"5", "4", "9", "8", "5", "6", "0", "9", "8", "1">>
NationalLength == 9

\* !number
Falsy(v) ==
    \/ v.type = "undefined"
    \/ v.type = "string" /\ v.s = <<>>
    \/ v.type = "number" /\ v.s = <<"0">>

\* s.replace(/^233/, "")
StripCountryCode(s) ==
    IF Len(s) >= 3 /\ SubSeq(s, 1, 3) = CountryCode THEN SubSeq(s, 4, Len(s)) ELSE s

\* s.trim()
RECURSIVE TrimStart(_)
TrimStart(s) == IF s # <<>> /\ Head(s) = " " THEN TrimStart(Tail(s)) ELSE s

RECURSIVE TrimEnd(_)
TrimEnd(s) ==
    IF s # <<>> /\ s[Len(s)] = " " THEN TrimEnd(SubSeq(s, 1, Len(s) - 1)) ELSE s

Trim(s) == TrimEnd(TrimStart(s))

\* The three versions of the helper: Dashboard.js calls number.replace (a
\* method strings have and numbers do not), part_000 converts with String(),
\* the tab components convert with toString() and trim after stripping.
formatPhoneNumber(src, number) ==
    IF Falsy(number) THEN Str(NA)
    ELSE IF src = "Dashboard.js" /\ number.type # "string" THEN TypeError
    ELSE LET replaced == StripCountryCode(number.s)
             cleaned == IF src = "NumbersTab.js" THEN Trim(replaced) ELSE replaced
         IN  IF Len(cleaned) = NationalLength THEN Str(<<"0">> \o cleaned)
             ELSE IF cleaned # <<>> THEN Str(cleaned) ELSE Str(NA)

PhoneSources == {"Dashboard.js", "part_000", "NumbersTab.js"}

\* The phone values explored: a prefix, a run of the national number (or one
\* with a letter in it), a suffix; as strings, and as numbers where they
\* are the decimal digits of one.
PhonePrefixes == {<<>>, CountryCode, CountryCode \o CountryCode, <<"0">>, <<" ">>}
PhoneBodies ==
    {SubSeq(NationalNumber, 1, k) : k \in {0, 8, 9, 10}}
       \cup {SubSeq(NationalNumber, 1, 8) \o <<"x">>}
PhoneSuffixes == {<<>>, <<" ">>}
PhoneStrings == {p \o b \o x : p \in PhonePrefixes, b \in PhoneBodies, x \in PhoneSuffixes}
PhoneNumbers ==
    {s \in PhoneStrings :
        s # <<>> /\ s[1] # "0" /\ \A i \in DOMAIN s : s[i] \in DigitChars}
       \cup {<<"0">>}
PhoneInputs ==
    {Undefined} \cup {Str(s) : s \in PhoneStrings} \cup {Num(s) : s \in PhoneNumbers}

\* c.toUpperCase() over the characters explored
UpperChar(c) == IF c = "g" THEN "G" ELSE IF c = "b" THEN "B" ELSE c

\* The end of the run of digits that starts at position i of s.
RECURSIVE RunEnd(_, _)
RunEnd(s, i) ==
    IF i < Len(s) /\ s[i + 1] \in DigitChars THEN RunEnd(s, i + 1) ELSE i

\* /(\d+)GB/ (with the i flag when ignoreCase) matches at position i: \d+ is
\* greedy and a shorter run is followed by a digit, so the run is taken whole.
MatchesAt(s, i, ignoreCase) ==
    /\ s[i] \in DigitChars
    /\ LET j == RunEnd(s, i)
       IN  /\ j + 2 <= Len(s)
           /\ (IF ignoreCase THEN UpperChar(s[j + 1]) ELSE s[j + 1]) = "G"
           /\ (IF ignoreCase THEN UpperChar(s[j + 2]) ELSE s[j + 2]) = "B"

NoMatch == <<"null">>

\* desc.match(/(\d+)GB/)[1]: the group of the leftmost match
MatchDigitsGB(s, ignoreCase) ==
    LET starts == {i \in DOMAIN s : MatchesAt(s, i, ignoreCase)}
    IN  IF starts = {} THEN NoMatch
        ELSE LET i == CHOOSE x \in starts : \A y \in starts : x <= y
             IN  SubSeq(s, i, RunEnd(s, i))

\* desc.match(/(\d)/i)[1]: the first digit of the text
MatchDigit(s) ==
    LET starts == {i \in DOMAIN s : s[i] \in DigitChars}
    IN  IF starts = {} THEN NoMatch
        ELSE <<s[CHOOSE x \in starts : \A y \in starts : x <= y]>>

\* The three versions of the helper.
extractGB(src, desc) ==
    IF Falsy(desc) THEN Str(NA)
    ELSE LET match == CASE src = "Dashboard.js" -> MatchDigitsGB(desc.s, FALSE)
                        [] src = "part_000" -> MatchDigit(desc.s)
                        [] OTHER -> MatchDigitsGB(desc.s, TRUE)
         IN  IF match # NoMatch THEN Str(match) ELSE Str(NA)

GBSources == {"Dashboard.js", "part_000", "UssdTransactionsTab.js"}

\* The descriptions explored: some text, a size, a unit, some text.
DescPrefixes == {<<>>, <<"M", " ">>, <<"5", " ">>}
DescSizes == {<<>>, <<"2">>, <<"1", "0">>}
DescUnits == {<<>>, <<"G", "B">>, <<"g", "b">>, <<"M", "B">>, <<" ", "G", "B">>}
DescSuffixes == {<<>>, <<"-", "P">>}
DescStrings ==
    {p \o n \o u \o x : p \in DescPrefixes, n \in DescSizes, u \in DescUnits,
                        x \in DescSuffixes}
DescInputs == {Undefined} \cup {Str(s) : s \in DescStrings}

\* One helper is given one argument; the dashboard itself is not running.
InitPure ==
    /\ variant = "main"
    /\ store = [c \in StoreChannels |-> InitStore(0, FALSE)]
    /\ ui = InitialUi(variant)
    /\ tasks = EmptyBag
    /\ timers = {}
    /\ files = <<>>
    /\ ended = <<>>
    /\ cancels = 0
    /\ events = {}
    /\ opsLeft = 0
    /\ extLeft = 0
    /\ failLeft = 0
    /\ calc \in {Calc(fn, GrouperSource(fn), txs) : fn \in Groupers, txs \in RecordLists}
                  \cup {Calc("formatPhoneNumber", src, v) :
                           src \in PhoneSources, v \in PhoneInputs}
                  \cup {Calc("extractGB", src, v) : src \in GBSources, v \in DescInputs}

\* The grouping is applied to the argument, then to its own output.
ApplyDedupe ==
    /\ calc.fn \in Groupers
    /\ Len(calc.out) < MaxApply
    /\ LET txs == IF calc.out = <<>> THEN calc.arg ELSE calc.out[Len(calc.out)]
       IN  calc' = [calc EXCEPT !.out = Append(@, Dedupe(calc.fn, txs))]
    /\ UNCHANGED <<variant, store, ui, tasks, timers, files, ended, cancels, events,
                   opsLeft, extLeft, failLeft>>

ApplyFormatPhoneNumber ==
    /\ calc.fn = "formatPhoneNumber"
    /\ calc.out = <<>>
    /\ calc' = [calc EXCEPT !.out = <<formatPhoneNumber(calc.src, calc.arg)>>]
    /\ UNCHANGED <<variant, store, ui, tasks, timers, files, ended, cancels, events,
                   opsLeft, extLeft, failLeft>>

ApplyExtractGB ==
    /\ calc.fn = "extractGB"
    /\ calc.out = <<>>
    /\ calc' = [calc EXCEPT !.out = <<extractGB(calc.src, calc.arg)>>]
    /\ UNCHANGED <<variant, store, ui, tasks, timers, files, ended, cancels, events,
                   opsLeft, extLeft, failLeft>>

NextPure ==
    \/ ApplyDedupe
    \/ ApplyFormatPhoneNumber
    \/ ApplyExtractGB

SpecPure == InitPure /\ [][NextPure]_vars

\* The group a record belongs to.  With keyById a record without a key is
\* grouped under its own id as a key value; without it, it is a group of its own.
GroupOf(tx, keyById) ==
    IF tx.key # NoKey THEN <<"key", tx.key>>
    ELSE IF keyById THEN <<"key", tx.id>> ELSE <<"id", tx.id>>

\* The records of txs that are the first of their group, in the order of txs.
RECURSIVE FirstOfEachGroup(_, _, _)
FirstOfEachGroup(txs, i, keyById) ==
    IF i > Len(txs) THEN <<>>
    ELSE (IF \E j \in 1..(i - 1) : GroupOf(txs[j], keyById) = GroupOf(txs[i], keyById)
          THEN <<>> ELSE <<txs[i]>>) \o FirstOfEachGroup(txs, i + 1, keyById)

\* C29 as stated: the grouping returns exactly one record per distinct
\* correlation key (a record without a key is keyed by its own id), in
\* first-seen order of the keys, and applying it to its own output returns
\* the same sequence.
C29_GroupingIdempotent ==
    calc.fn \in Groupers =>
       /\ Len(calc.out) >= 1 => calc.out[1] = FirstOfEachGroup(calc.arg, 1, TRUE)
       /\ \A k \in 2..Len(calc.out) : calc.out[k] = calc.out[1]

\* C29 amended: the grouping returns the first record of each group in
\* first-seen order and is idempotent, where uniqueTx groups a record without
\* externalRef under its id as a key value, and the teller's filter keeps
\* every record without a transId as a group of its own.
C29_GroupingIdempotentPerHelper ==
    calc.fn \in Groupers =>
       /\ Len(calc.out) >= 1 =>
             calc.out[1] = FirstOfEachGroup(calc.arg, 1, calc.fn = "uniqueTx")
       /\ \A k \in 2..Len(calc.out) : calc.out[k] = calc.out[1]

\* The teller's filter has run twice on a fetch in which a duplicate was
\* dropped and a record without a transId has the id another record carries
\* as its transId.
C29_Witness ==
    /\ calc.fn = "transactionsData"
    /\ Len(calc.out) = MaxApply
    /\ Len(calc.out[1]) < Len(calc.arg)
    /\ \E i, j \in DOMAIN calc.out[1] :
          calc.out[1][i].key = NoKey /\ calc.out[1][j].key = calc.out[1][i].id

IsNational(s) == Len(s) = NationalLength /\ \A i \in DOMAIN s : s[i] \in DigitChars

\* C30: for every input the phone helper returns a string: N/A for an empty
\* or missing value, and otherwise the value with one leading 233 stripped
\* and a 0 put in front exactly when what is left has 9 digits (surrounding
\* blanks aside); so 233549856098 gives 0549856098 and 0549856098 itself.
C30_PhoneNormalization ==
    (calc.fn = "formatPhoneNumber" /\ calc.out # <<>>) =>
       LET number == calc.arg
           result == calc.out[1]
           stripped == Trim(StripCountryCode(number.s))
       IN  /\ result.type = "string"
           /\ (number.type = "undefined" \/ number.s = <<>>) => result.s = NA
           /\ ~Falsy(number) =>
                 IF IsNational(stripped) THEN Trim(result.s) = <<"0">> \o stripped
                 ELSE IF stripped = <<>> THEN Trim(result.s) \in {<<>>, NA}
                 ELSE Trim(result.s) = stripped

\* A whole integer of s starts at i and is immediately followed by GB in any case.
SizeAt(s, i) ==
    /\ s[i] \in DigitChars
    /\ i > 1 => s[i - 1] \notin DigitChars
    /\ LET j == RunEnd(s, i)
       IN  j + 2 <= Len(s) /\ <<UpperChar(s[j + 1]), UpperChar(s[j + 2])>> = <<"G", "B">>

\* C31: plan-size extraction returns the first whole integer immediately
\* followed by GB, in any case, and N/A when the text has none: 10GB gives
\* 10, 2gb gives 2, digits without a GB suffix give N/A.
C31_PlanSizeExtraction ==
    (calc.fn = "extractGB" /\ calc.out # <<>>) =>
       LET desc == calc.arg.s
           sizes == {i \in DOMAIN desc : SizeAt(desc, i)}
       IN  calc.out[1] =
              IF sizes = {} THEN Str(NA)
              ELSE LET i == CHOOSE x \in sizes : \A y \in sizes : x <= y
                   IN  Str(SubSeq(desc, i, RunEnd(desc, i)))

\* C32: no silent loss: every document that a returned export has flagged is
\* a row of a file produced for that export's channel and selection.
C32_NoSilentLoss ==
    \A e \in Ended :
       \A d \in SeqToSet(Flatten(e.written)) :
          \E i \in DOMAIN files :
             files[i].ch = e.ch /\ files[i].docs = e.docs /\ d \in SeqToSet(files[i].docs)

\* The export handlers of a bag that have not left their write loop.
WritersIn(bag) ==
    LET S == {t \in BagToSet(bag) : t.kind = "export" /\ t.pc \in {"read", "chunks"}}
    IN  BagCardinality([t \in S |-> CopiesIn(t, bag)])

\* The step in which an export handler returns through its catch.
ExportFails == Len(ended') = Len(ended) + 1 /\ ended'[Len(ended')].failed

Quiescent == tasks = EmptyBag /\ timers = {} /\ ~ui.loading

\* C34: whenever the dashboard is quiescent, hasMore of a channel is false
\* only if the page it displays holds fewer than pageSize records.
C34_HasMoreReflectsPage ==
    Quiescent =>
       \A ch \in AllChannels : ~ui.hasMore[ch] => Len(ui.rows[ch]) < pageSize

\* C35: while the store is unchanged and the run holds only Next, Previous
\* and tab clicks, the cached pages of a channel are pairwise disjoint,
\* cache[n] is the n-th slice of the ordered pending set, and every page
\* with a non-empty cache entry has its end cursor recorded.
C35_CacheIsSlices ==
    (Paginated /\ events \subseteq {"tab"}) =>
       \A ch \in Channels :
          LET c == ui.cache[ch]
          IN  \A p \in DOMAIN c :
                 /\ c[p] = Slice(ch, p)
                 /\ \A q \in DOMAIN c \ {p} : SeqToSet(c[p]) \cap SeqToSet(c[q]) = {}
                 /\ c[p] # <<>> => p \in DOMAIN ui.lastDocs[ch]

\* C36: whenever the channel on screen has no fetch or export in flight (and
\* no store call has failed), its displayed rows are the cached rows of its
\* current page number.
C36_DisplayedIsCurrentPage ==
    (Paginated /\ "failure" \notin events) =>
       LET ch == ui.tabValue
       IN  (\A t \in BagToSet(tasks) : t.ch # ch)
              => /\ ui.page[ch] \in DOMAIN ui.cache[ch]
                 /\ ui.rows[ch] = ui.cache[ch][ui.page[ch]]

\* C37: whenever the channel on screen has no operation in flight, no other
\* session has written and no store call has failed, the displayed pending
\* total is the number of records matching the channel's pending filter.
C37_TotalIsCurrent ==
    (Paginated /\ "external" \notin events /\ "failure" \notin events) =>
       LET ch == ui.tabValue
       IN  (\A t \in BagToSet(tasks) : t.ch # ch)
              => ui.total[ch] = TotalQuery(store, ch)

\* The Previous button of the tab on screen is rendered and enabled.
PrevAvailable ==
    /\ ContentVisible(ui)
    /\ Displayed(variant, store, ui.rows[ui.tabValue], ui.tabValue) # <<>>
    /\ NavEnabled(ui, "prev")

\* C38: navigation never dead-ends: in every quiescent state without an
\* error or an open dialog in which the tab on screen is on a page above 1,
\* the Previous action is available.
C38_PrevAvailable ==
    ( /\ Paginated /\ Quiescent
      /\ ui.error = NoError /\ ~ui.showConfirmDialog
      /\ ui.page[ui.tabValue] > 1 )
       => PrevAvailable

\* A store call in flight returns, with a result or with a rejection.
StoreReturns ==
    \E t \in BagToSet(tasks) :
       \/ PageCont(t) \/ PageFail(t)
       \/ TotalCont(t) \/ TotalFail(t)
       \/ CountCont(t) \/ CountFail(t)
       \/ ExportAfterRead(t) \/ ExportReadFail(t)
       \/ ExportCommit(t) \/ ExportCommitFail(t)
       \/ ExportPageCont(t) \/ ExportPageFail(t)
       \/ ExportTotalCont(t) \/ ExportTotalFail(t)

\* The paginated dashboards under the assumption that every store call
\* eventually returns.
LiveScenarios ==
    { Scenario(OnePage, MaxOps - 2, MaxExt, MaxFail),
      Scenario(OverCap, MaxOps - 3, 0, MaxFail) }

InitLive ==
    /\ variant \in Variants
    /\ \E sc \in LiveScenarios :
          /\ store = [c \in StoreChannels |->
                        CASE c = PrimaryChannel(variant) ->
                                InitStore(sc.n, StatusFilter(c))
                          [] c = TellerChannel -> InitStore(0, FALSE)
                          [] OTHER -> InitStore(1, StatusFilter(c))]
          /\ opsLeft = sc.ops
          /\ extLeft = sc.ext
          /\ failLeft = sc.fail
    /\ LET r == RunEffect(variant, store, InitialUi(variant), InitialUi(variant), EmptyBag)
       IN  ui = r.ui /\ tasks = r.tasks
    /\ timers = {}
    /\ files = <<>>
    /\ ended = <<>>
    /\ cancels = 0
    /\ events = {}
    /\ calc = NoCalc

SpecLive == InitLive /\ [][Next]_vars /\ WF_vars(StoreReturns)

\* An openConfirmDialog or a handleDownloadX has started and not returned.
InHandler == \E t \in BagToSet(tasks) : t.kind \in {"count", "export"}

\* C39: every started openConfirm and every started export eventually
\* returns, whether its store calls succeed or fail, provided each store call
\* returns: whenever a handler is running, a state follows in which no
\* handler is running and loading is false.
C39_HandlersFinish == InHandler ~> (~InHandler /\ ~ui.loading)

\* An export has returned through its catch and the dashboard is idle.
C39_Witness ==
    /\ ~InHandler /\ ~ui.loading
    /\ \E e \in Ended : e.failed

====
